---- MODULE Spec2Model ----
(***************************************************************************)
(* Model of scripts/voice_replace_pipeline.py: main() and the functions it *)
(* calls (extract_audio, transcribe_audio, generate_segments,              *)
(* chatterbox_tts, synthesize_beep, stretch_segment, assemble_segments,    *)
(* replace_audio_track) as one sequential state machine.  External         *)
(* processes are launched and reaped in separate steps, so the set of      *)
(* processes alive at any instant is part of the state.  Times are in      *)
(* milliseconds; a text is the sequence of the lengths of its words.       *)
(***************************************************************************)
EXTENDS Integers, Sequences, FiniteSets, TLC

\* ---------------------------------------------------------------- bounds
\* most transcript segments a backend or a transcript file delivers
MaxSegs == 2
\* most words of a segment handed to split_long_segment on its own
MaxWords == 32
\* most generated segments handed to assemble_segments on its own
MaxAsm == 3
\* most characters of a text, most segments of a transcript written and read back
MaxChars == 2
MaxRt == 2

\* ------------------------------------------------------ program constants
\* split_long_segment(max_duration=15.0), in ms
MaxDurationMs == 15000
\* argparse defaults of chatterbox_tts.py for --steps / --max-new-tokens
DefaultSteps == 50
DefaultMaxNewTokens == 64
\* stretch_segment: target_duration = max(0.1, target_duration), in ms
MinTargetMs == 100
\* assemble_segments: tail padding of the track and smallest gap filled, in ms
TailPaddingMs == 1000
GapThresholdMs == 100
\* the factor between the seconds of a transcript and the ms of a track;
\* the times handed to assemble_segments are kept in microseconds
MsFactor == 1000
\* an environment variable that is unset (isdigit() accepts no sign)
Unset == -1

Max(a, b) == IF a >= b THEN a ELSE b
Min(a, b) == IF a <= b THEN a ELSE b

\* ------------------------------------------------------------ input pools
\* transcript segments the transcription step can deliver
\* 3 s, two words, 130 characters
SegWide == [start |-> 0, end |-> 3000, words |-> <<60, 69>>]
\* 18 s, sixteen words of 7 characters: split into 15 s and 3 s
SegLong == [start |-> 3000, end |-> 21000, words |-> [i \in 1..16 |-> 7]]
SegPool == {SegWide, SegLong}
\* an entry of a transcript file without text
SegBlank == [start |-> 21000, end |-> 22000, words |-> <<>>]
\* a segment a backend reports without "end": end defaults to 0.0
SegNoEnd == [start |-> 3000, end |-> 0, words |-> <<5>>]

RECURSIVE SeqsUpTo(_, _)
SeqsUpTo(S, n) ==
    IF n = 0 THEN {<<>>}
    ELSE LET shorter == SeqsUpTo(S, n - 1)
         IN  shorter \cup {Append(s, x) : s \in {t \in shorter : Len(t) = n - 1}, x \in S}

\* values of CHATTERBOX_STEPS / CHATTERBOX_MAX_NEW_TOKENS in the environment
EnvChoices ==
    { [steps |-> Unset, tokens |-> Unset],
      [steps |-> 5, tokens |-> 10],
      [steps |-> 50, tokens |-> 128] }

\* the --transcript-json / --transcriber selection of one run
Modes == {"json", "auto", "faster-whisper", "whisper", "whisper-cpp"}

\* what a finished synthesis subprocess left on stdout (exit status 0)
StdoutKinds == {"result", "beep_note", "malformed", "empty", "non_object"}

\* -------------------------------------------------------- pure functions
\* variant: the difference is returned as it is
duration_signed(seg) == seg.end - seg.start

\* TranscriptSegment.duration
duration(seg) == Max(0, seg.end - seg.start)

RECURSIVE SumSeq(_)
SumSeq(s) == IF s = <<>> THEN 0 ELSE Head(s) + SumSeq(Tail(s))

\* decimal digits of a natural number
RECURSIVE Digits(_)
Digits(n) == IF n < 10 THEN <<n>> ELSE Append(Digits(n \div 10), n % 10)

\* format(index, "04d"): at least four digits, zeros in front
Pad4(d) == IF Len(d) >= 4 THEN d ELSE [i \in 1..(4 - Len(d)) |-> 0] \o d

\* variant: the name does not depend on the index
ClipPath_fixed(index0, kind) == [dir |-> "workdir", digits |-> <<0, 0, 0, 0>>, kind |-> kind]

\* workdir / f"segment_{index:04d}_raw.wav" and ..._aligned.wav, index from 0
ClipPath(index0, kind) == [dir |-> "workdir", digits |-> Pad4(Digits(index0)), kind |-> kind]

\* len(text.strip()) of the words joined by single blanks
TextLen(words) == IF words = <<>> THEN 0 ELSE SumSeq(words) + Len(words) - 1

\* variant: the slice stops one word early
Slice_short(words, idx, n) == SubSeq(words, idx + 1, Min(Len(words), idx + n - 1))

\* words[idx : idx + n] with a 0-based idx, as Python slices
Slice(words, idx, n) == SubSeq(words, idx + 1, Min(Len(words), idx + n))

\* variant: the end of a chunk is not clipped to the end of the segment
RECURSIVE SplitLoop_unclipped(_, _, _, _, _)
SplitLoop_unclipped(segment, start, idx, chunk_word_count, sub_segments) ==
    IF idx < Len(segment.words)
    THEN LET end == start + MaxDurationMs
             sub == [start |-> start, end |-> end,
                     words |-> Slice(segment.words, idx, chunk_word_count)]
         IN  SplitLoop_unclipped(segment, end, idx + chunk_word_count,
                                 chunk_word_count, Append(sub_segments, sub))
    ELSE sub_segments

RECURSIVE SplitLoop(_, _, _, _, _)
SplitLoop(segment, start, idx, chunk_word_count, sub_segments) ==
    IF idx < Len(segment.words)
    THEN LET end == Min(start + MaxDurationMs, segment.end)
             sub == [start |-> start, end |-> end,
                     words |-> Slice(segment.words, idx, chunk_word_count)]
         IN  SplitLoop(segment, end, idx + chunk_word_count, chunk_word_count,
                       Append(sub_segments, sub))
    ELSE sub_segments

\* variant: the first chunk starts at time 0 instead of segment.start
split_long_segment_from_zero(segment) ==
    IF duration(segment) <= MaxDurationMs THEN <<segment>>
    ELSE IF segment.words = <<>> THEN <<segment>>
    ELSE LET n == Len(segment.words)
             d == duration(segment)
             \* max(int(max(n / seconds, 1.0) * 15.0), 1)
             chunk_word_count ==
                 IF n * 1000 >= d THEN Max((n * MaxDurationMs) \div d, 1)
                 ELSE MaxDurationMs \div 1000
         IN  SplitLoop(segment, 0, 0, chunk_word_count, <<>>)

split_long_segment(segment) ==
    IF duration(segment) <= MaxDurationMs THEN <<segment>>
    ELSE IF segment.words = <<>> THEN <<segment>>
    ELSE LET n == Len(segment.words)
             d == duration(segment)
             \* max(int(max(n / seconds, 1.0) * 15.0), 1)
             chunk_word_count ==
                 IF n * 1000 >= d THEN Max((n * MaxDurationMs) \div d, 1)
                 ELSE MaxDurationMs \div 1000
         IN  SplitLoop(segment, segment.start, 0, chunk_word_count, <<>>)

RECURSIVE SplitAll(_)
SplitAll(segs) ==
    IF segs = <<>> THEN <<>>
    ELSE split_long_segment(Head(segs)) \o SplitAll(Tail(segs))

\* the retry values computed after the first timeout
fallback_steps(text_len) == Max(6, Min(20, (3 * text_len) \div 10))
fallback_tokens(text_len) == Max(16, Min(64, text_len \div 2))

\* the command line of the first attempt: a flag is passed only when the
\* environment variable is set to digits
FirstCmd(env) == [steps |-> env.steps, tokens |-> env.tokens]

\* the command line of the retry: both flags replaced or appended
RetryCmd(cmd, words) ==
    LET text_len == Max(1, TextLen(words))
    IN  [steps |-> fallback_steps(text_len), tokens |-> fallback_tokens(text_len)]

\* the value the CLI works with: the flag, else its argparse default
EffSteps(cmd) == IF cmd.steps = Unset THEN DefaultSteps ELSE cmd.steps
EffTokens(cmd) == IF cmd.tokens = Unset THEN DefaultMaxNewTokens ELSE cmd.tokens

\* ------------------------------------------------------------------ state
VARIABLES
    pc,            \* position of the single thread of control
    cfg,           \* parsed command line and environment
    procs,         \* external processes alive
    workdir,       \* the temporary working directory exists
    stage,         \* status of each stage of main()
    attempts,      \* transcription backends called so far, with outcome
    segments,      \* transcript segments handed to generate_segments
    all_segments,  \* segments after split_long_segment
    index,         \* 1-based loop index of generate_segments
    call,          \* the current (or last) chatterbox_tts call
    raw,           \* what wrote the raw clip of the current index
    generated,     \* GeneratedSegments appended so far
    mux_count,     \* times the mux command was launched
    exc,           \* exception propagating, kind and origin
    exit_status,   \* process exit status, -1 while running
    stderr_msg,    \* an error message has been written to stderr
    preserved,     \* every working file has been copied to <output>.workdir
    transcript_json \* entries of the --transcript-json file as read

pipe_vars == <<pc, cfg, procs, workdir, stage, attempts, segments, all_segments,
               index, call, raw, generated, mux_count, exc, exit_status, stderr_msg,
               preserved, transcript_json>>

\* state of one function studied on its own, outside a run of main()
VARIABLES
    fpc,           \* position inside the function
    segment,       \* split_long_segment: its argument
    seg_duration,  \* split_long_segment: segment.duration as read
    sub_segments,  \* split_long_segment: the list returned
    stretch_in,    \* stretch_segment: duration of the input clip, target_duration
    current_duration, \* stretch_segment: what segment_audio_duration returned
    speed,         \* stretch_segment: the ratio, as numerator and denominator
    stretch_out,   \* stretch_segment: output file, speedup() calls, exception
    asm_in,        \* assemble_segments: its argument
    ordered,       \* assemble_segments: the segments sorted by start
    final_audio,   \* assemble_segments: the track, its overlays and silences
    prev_end_ms,   \* assemble_segments: running end of the clips placed
    k,             \* assemble_segments: 1-based position in ordered
    asm_out,       \* assemble_segments: exported file and exception
    cli_in,        \* chatterbox_tts.py: command line, environment, what each call does
    cli_stdout,    \* chatterbox_tts.py: the lines printed to standard output
    cli_stderr,    \* chatterbox_tts.py: the lines printed to standard error
    cli_events,    \* chatterbox_tts.py: what happened in the run
    cli_exit,      \* chatterbox_tts.py: exit status of the process
    rt_in,         \* write_transcript: the segments to persist
    rt_file,       \* the transcript file: absent or a list of JSON objects
    rt_out         \* load_transcript_from_json: segments returned, exception

split_vars == <<segment, seg_duration, sub_segments>>

stretch_vars == <<stretch_in, current_duration, speed, stretch_out>>

asm_vars == <<asm_in, ordered, final_audio, prev_end_ms, k, asm_out>>

cli_vars == <<cli_in, cli_stdout, cli_stderr, cli_events, cli_exit>>

rt_vars == <<rt_in, rt_file, rt_out>>

fn_vars == <<fpc, split_vars, stretch_vars, asm_vars, cli_vars, rt_vars>>

vars == <<pipe_vars, fn_vars>>

Stages == {"extract", "transcribe", "generate", "assemble", "mux"}

NoExc == [kind |-> "none", at |-> "none"]
PipelineError(at) == [kind |-> "PipelineError", at |-> at]
OtherError(at) == [kind |-> "Other", at |-> at]

NoCall == [index |-> 0, launches |-> 0, timeouts |-> 0, first |-> FirstCmd([steps |-> Unset, tokens |-> Unset]),
           retry |-> FirstCmd([steps |-> Unset, tokens |-> Unset]), rc |-> -1, stdout |-> "none", res |-> "none"]

\* no function is studied on its own during a run of main()
SplitIdle ==
    /\ segment = [start |-> 0, end |-> 0, words |-> <<>>]
    /\ seg_duration = 0
    /\ sub_segments = <<>>

NoStretchOut == [file |-> "none", speedup_calls |-> 0, exc |-> NoExc]

StretchIdle ==
    /\ stretch_in = [clip_ms |-> 0, target_duration |-> 0]
    /\ current_duration = 0
    /\ speed = [num |-> 0, den |-> 1]
    /\ stretch_out = NoStretchOut

NoTrack == [len |-> 0, overlays |-> <<>>, silences |-> <<>>]
NoAsmOut == [file |-> "none", len |-> 0, exc |-> NoExc]

AsmIdle ==
    /\ asm_in = <<>>
    /\ ordered = <<>>
    /\ final_audio = NoTrack
    /\ prev_end_ms = 0
    /\ k = 0
    /\ asm_out = NoAsmOut

NoCliIn == [argv |-> "none", env |-> "none", imports |-> "none",
            from_pretrained |-> "none", speaker_wav |-> "none",
            generate |-> "none", persist |-> "none"]

CliIdle ==
    /\ cli_in = NoCliIn
    /\ cli_stdout = <<>>
    /\ cli_stderr = <<>>
    /\ cli_events = {}
    /\ cli_exit = Unset

NoFile == [exists |-> FALSE, entries |-> <<>>]
NoRtOut == [segments |-> <<>>, exc |-> NoExc]

RtIdle ==
    /\ rt_in = <<>>
    /\ rt_file = NoFile
    /\ rt_out = NoRtOut

FnIdle ==
    /\ fpc = "idle"
    /\ SplitIdle
    /\ StretchIdle
    /\ AsmIdle
    /\ CliIdle
    /\ RtIdle

Init ==
    /\ FnIdle
    /\ pc = "main"
    /\ cfg \in [mode : Modes, cpp_model : BOOLEAN, allow_fallback : BOOLEAN,
                keep_workdir : BOOLEAN, env : EnvChoices]
    /\ procs = {}
    /\ workdir = FALSE
    /\ stage = [s \in Stages |-> "idle"]
    /\ attempts = <<>>
    /\ segments = <<>>
    /\ all_segments = <<>>
    /\ index = 0
    /\ call = NoCall
    /\ raw = "none"
    /\ generated = <<>>
    /\ mux_count = 0
    /\ exc = NoExc
    /\ exit_status = -1
    /\ stderr_msg = FALSE
    /\ preserved = FALSE
    /\ transcript_json = <<>>

\* ------------------------------------------------- exception propagation
\* an exception raised inside the `with TemporaryDirectory()` block of
\* main() while stage st is running: the block is left through cleanup
Raise(e, st) ==
    /\ exc' = e
    /\ stage' = [stage EXCEPT ![st] = "failed"]
    /\ pc' = "cleanup"

\* a finished backend call is recorded as the last entry of attempts
Attempted(backend, outcome, segs) ==
    Append(attempts, [backend |-> backend, outcome |-> outcome, segs |-> segs])

Resolved(outcome, segs) ==
    [attempts EXCEPT ![Len(attempts)] = [@ EXCEPT !.outcome = outcome, !.segs = segs]]

\* non-empty results of a transcription backend
BackendResults == (SeqsUpTo(SegPool, MaxSegs) \ {<<>>}) \cup {<<SegNoEnd>>}
\* contents of a valid transcript file (possibly without any entry)
TranscriptFiles == SeqsUpTo(SegPool \cup {SegBlank}, MaxSegs)
\* if text: after str(...).strip()
HasText(entry) == entry.words # <<>>

\* ------------------------------------------------------------------ main
\* main(): existence checks, then the temporary directory is created
main_check_inputs ==
    /\ pc = "main"
    /\ \E input_exists \in BOOLEAN, prompt_exists \in BOOLEAN :
         IF ~input_exists
         THEN /\ exc' = PipelineError("input_video")
              /\ pc' = "exit"
              /\ UNCHANGED workdir
         ELSE IF ~prompt_exists
         THEN /\ exc' = PipelineError("audio_prompt")
              /\ pc' = "exit"
              /\ UNCHANGED workdir
         ELSE /\ workdir' = TRUE
              /\ pc' = "extract"
              /\ UNCHANGED exc
    /\ UNCHANGED <<fn_vars, preserved, transcript_json, cfg, procs, stage, attempts, segments, all_segments, index,
                   call, raw, generated, mux_count, exit_status, stderr_msg>>

\* extract_audio(): run_command starts ffmpeg
extract_audio_launch ==
    /\ pc = "extract"
    /\ procs' = procs \cup {"ffmpeg_extract"}
    /\ stage' = [stage EXCEPT !["extract"] = "running"]
    /\ pc' = "extract_wait"
    /\ UNCHANGED <<fn_vars, preserved, transcript_json, cfg, workdir, attempts, segments, all_segments, index, call,
                   raw, generated, mux_count, exc, exit_status, stderr_msg>>

\* variant: the exit status of ffmpeg is recorded but not acted upon
extract_audio_finish_unchecked ==
    /\ pc = "extract_wait"
    /\ procs' = procs \ {"ffmpeg_extract"}
    /\ \E returncode \in {0, 1} :
         /\ stage' = [stage EXCEPT !["extract"] = IF returncode # 0 THEN "failed" ELSE "ok"]
         /\ pc' = "transcript"
         /\ UNCHANGED exc
    /\ UNCHANGED <<fn_vars, preserved, transcript_json, cfg, workdir, attempts, segments, all_segments, index, call,
                   raw, generated, mux_count, exit_status, stderr_msg>>

\* run_command returns when ffmpeg has exited; non-zero raises PipelineError
extract_audio_finish ==
    /\ pc = "extract_wait"
    /\ procs' = procs \ {"ffmpeg_extract"}
    /\ \E returncode \in {0, 1} :
         IF returncode # 0
         THEN Raise(PipelineError("extract"), "extract")
         ELSE /\ stage' = [stage EXCEPT !["extract"] = "ok"]
              /\ pc' = "transcript"
              /\ UNCHANGED exc
    /\ UNCHANGED <<fn_vars, preserved, transcript_json, cfg, workdir, attempts, segments, all_segments, index, call,
                   raw, generated, mux_count, exit_status, stderr_msg>>

\* variant: entries without text are kept
load_transcript_from_json_keep_empty ==
    /\ pc = "transcript"
    /\ cfg.mode = "json"
    /\ \/ \E entries \in TranscriptFiles :
            /\ transcript_json' = entries
            /\ segments' = entries
            /\ stage' = [stage EXCEPT !["transcribe"] = "ok"]
            /\ pc' = "save_transcript"
            /\ UNCHANGED exc
       \/ /\ Raise(PipelineError("transcript_json"), "transcribe")
          /\ UNCHANGED <<segments, transcript_json>>
       \/ /\ Raise(OtherError("transcript_json"), "transcribe")
          /\ UNCHANGED <<segments, transcript_json>>
    /\ UNCHANGED <<fn_vars, preserved, cfg, procs, workdir, attempts, all_segments, index, call,
                   raw, generated, mux_count, exit_status, stderr_msg>>

\* load_transcript_from_json(), taken when --transcript-json is given:
\* entries whose text is empty are skipped
load_transcript_from_json ==
    /\ pc = "transcript"
    /\ cfg.mode = "json"
    /\ \/ \E entries \in TranscriptFiles :
            /\ transcript_json' = entries
            /\ segments' = SelectSeq(entries, HasText)
            /\ stage' = [stage EXCEPT !["transcribe"] = "ok"]
            /\ pc' = "save_transcript"
            /\ UNCHANGED exc
       \/ /\ Raise(PipelineError("transcript_json"), "transcribe")
          /\ UNCHANGED <<segments, transcript_json>>
       \/ /\ Raise(OtherError("transcript_json"), "transcribe")
          /\ UNCHANGED <<segments, transcript_json>>
    /\ UNCHANGED <<fn_vars, preserved, cfg, procs, workdir, attempts, all_segments, index, call,
                   raw, generated, mux_count, exit_status, stderr_msg>>

\* transcribe_audio(): selection of the (first) backend
transcribe_audio ==
    /\ pc = "transcript"
    /\ cfg.mode # "json"
    /\ IF cfg.mode \in {"auto", "faster-whisper"}
       THEN /\ pc' = "tr_fw"
            /\ stage' = [stage EXCEPT !["transcribe"] = "running"]
            /\ UNCHANGED exc
       ELSE IF cfg.mode = "whisper"
       THEN /\ pc' = "tr_ow"
            /\ stage' = [stage EXCEPT !["transcribe"] = "running"]
            /\ UNCHANGED exc
       ELSE IF ~cfg.cpp_model
       THEN Raise(PipelineError("transcribe_audio"), "transcribe")
       ELSE /\ pc' = "tr_cpp"
            /\ stage' = [stage EXCEPT !["transcribe"] = "running"]
            /\ UNCHANGED exc
    /\ UNCHANGED <<fn_vars, preserved, transcript_json, cfg, procs, workdir, attempts, segments, all_segments, index,
                   call, raw, generated, mux_count, exit_status, stderr_msg>>

\* variant: whisper.cpp is tried whether or not a model is configured
AfterFasterWhisper_always_cpp == "tr_cpp"

\* where the auto chain continues after faster-whisper raised PipelineError
AfterFasterWhisper == IF cfg.cpp_model THEN "tr_cpp" ELSE "tr_ow"

\* transcribe_with_faster_whisper(), in process
transcribe_with_faster_whisper ==
    /\ pc = "tr_fw"
    /\ \/ \E segs \in BackendResults :
            /\ attempts' = Attempted("faster-whisper", "ok", segs)
            /\ segments' = segs
            /\ stage' = [stage EXCEPT !["transcribe"] = "ok"]
            /\ pc' = "save_transcript"
            /\ UNCHANGED exc
       \/ /\ attempts' = Attempted("faster-whisper", "PipelineError", <<>>)
          /\ IF cfg.mode = "auto"
             THEN /\ pc' = AfterFasterWhisper
                  /\ UNCHANGED <<exc, stage>>
             ELSE Raise(PipelineError("faster-whisper"), "transcribe")
          /\ UNCHANGED segments
       \/ /\ attempts' = Attempted("faster-whisper", "Other", <<>>)
          /\ Raise(OtherError("faster-whisper"), "transcribe")
          /\ UNCHANGED segments
    /\ UNCHANGED <<fn_vars, preserved, transcript_json, cfg, procs, workdir, all_segments, index, call, raw,
                   generated, mux_count, exit_status, stderr_msg>>

\* a PipelineError leaving transcribe_with_whisper_cpp: swallowed by the
\* auto chain, raised to main() when the backend was selected explicitly
WhisperCppFailed ==
    /\ attempts' = Resolved("PipelineError", <<>>)
    /\ IF cfg.mode = "auto"
       THEN /\ pc' = "tr_ow"
            /\ UNCHANGED <<exc, stage>>
       ELSE Raise(PipelineError("whisper-cpp"), "transcribe")
    /\ UNCHANGED segments

\* the JSON transcript of whisper.cpp is read and converted
WhisperCppParsed ==
    \/ \E segs \in BackendResults :
         /\ attempts' = Resolved("ok", segs)
         /\ segments' = segs
         /\ stage' = [stage EXCEPT !["transcribe"] = "ok"]
         /\ pc' = "save_transcript"
         /\ UNCHANGED exc
    \/ WhisperCppFailed

\* transcribe_with_whisper_cpp(): binary and model are looked up, then the
\* CLI is started
whisper_cpp_launch ==
    /\ pc = "tr_cpp"
    /\ \E found \in BOOLEAN :
         IF ~found
         THEN /\ attempts' = Attempted("whisper-cpp", "PipelineError", <<>>)
              /\ IF cfg.mode = "auto"
                 THEN /\ pc' = "tr_ow"
                      /\ UNCHANGED <<exc, stage>>
                 ELSE Raise(PipelineError("whisper-cpp"), "transcribe")
              /\ UNCHANGED procs
         ELSE /\ attempts' = Attempted("whisper-cpp", "running", <<>>)
              /\ procs' = procs \cup {"whisper_cpp_1"}
              /\ pc' = "tr_cpp_wait1"
              /\ UNCHANGED <<exc, stage>>
    /\ UNCHANGED <<fn_vars, preserved, transcript_json, cfg, workdir, segments, all_segments, index, call, raw,
                   generated, mux_count, exit_status, stderr_msg>>

\* subprocess.run returns or raises TimeoutExpired; either way the child
\* has been reaped
whisper_cpp_finish ==
    /\ pc = "tr_cpp_wait1"
    /\ procs' = procs \ {"whisper_cpp_1"}
    /\ \/ /\ pc' = "tr_cpp_retry"
          /\ UNCHANGED <<attempts, segments, stage, exc>>
       \/ WhisperCppFailed
       \/ WhisperCppParsed
    /\ UNCHANGED <<fn_vars, preserved, transcript_json, cfg, workdir, all_segments, index, call, raw, generated,
                   mux_count, exit_status, stderr_msg>>

\* after the timeout: the command is run again with --beam-size 1
whisper_cpp_retry_launch ==
    /\ pc = "tr_cpp_retry"
    /\ procs' = procs \cup {"whisper_cpp_2"}
    /\ pc' = "tr_cpp_wait2"
    /\ UNCHANGED <<fn_vars, preserved, transcript_json, cfg, workdir, stage, attempts, segments, all_segments, index,
                   call, raw, generated, mux_count, exc, exit_status, stderr_msg>>

\* a second timeout or a non-zero exit raises PipelineError
whisper_cpp_retry_finish ==
    /\ pc = "tr_cpp_wait2"
    /\ procs' = procs \ {"whisper_cpp_2"}
    /\ \/ WhisperCppFailed
       \/ WhisperCppParsed
    /\ UNCHANGED <<fn_vars, preserved, transcript_json, cfg, workdir, all_segments, index, call, raw, generated,
                   mux_count, exit_status, stderr_msg>>

\* transcribe_with_openai_whisper(), in process; last link of the auto chain
transcribe_with_openai_whisper ==
    /\ pc = "tr_ow"
    /\ \/ \E segs \in BackendResults :
            /\ attempts' = Attempted("openai-whisper", "ok", segs)
            /\ segments' = segs
            /\ stage' = [stage EXCEPT !["transcribe"] = "ok"]
            /\ pc' = "save_transcript"
            /\ UNCHANGED exc
       \/ /\ attempts' = Attempted("openai-whisper", "PipelineError", <<>>)
          /\ Raise(PipelineError("openai-whisper"), "transcribe")
          /\ UNCHANGED segments
       \/ /\ attempts' = Attempted("openai-whisper", "Other", <<>>)
          /\ Raise(OtherError("openai-whisper"), "transcribe")
          /\ UNCHANGED segments
    /\ UNCHANGED <<fn_vars, preserved, transcript_json, cfg, procs, workdir, all_segments, index, call, raw,
                   generated, mux_count, exit_status, stderr_msg>>

\* main(): with --save-transcript the transcript is written, which can
\* fail on the file system; then generate_segments is entered
main_save_transcript ==
    /\ pc = "save_transcript"
    /\ \/ /\ pc' = "gen_split"
          /\ UNCHANGED <<exc, stage>>
       \/ /\ exc' = OtherError("write_transcript")
          /\ pc' = "cleanup"
          /\ UNCHANGED stage
    /\ UNCHANGED <<fn_vars, preserved, transcript_json, cfg, procs, workdir, attempts, segments, all_segments, index,
                   call, raw, generated, mux_count, exit_status, stderr_msg>>

\* ------------------------------------------------------ generate_segments
\* generate_segments(): every segment is split, then the loop starts
generate_segments_split ==
    /\ pc = "gen_split"
    /\ all_segments' = SplitAll(segments)
    /\ index' = 1
    /\ generated' = <<>>
    /\ raw' = "none"
    /\ stage' = [stage EXCEPT !["generate"] = "running"]
    /\ pc' = "gen_loop"
    /\ UNCHANGED <<fn_vars, preserved, transcript_json, cfg, procs, workdir, attempts, segments, call, mux_count,
                   exc, exit_status, stderr_msg>>

\* the loop is exhausted: generate_segments returns the list
generate_segments_return ==
    /\ pc = "gen_loop"
    /\ index > Len(all_segments)
    /\ stage' = [stage EXCEPT !["generate"] = "ok"]
    /\ pc' = "assemble"
    /\ UNCHANGED <<fn_vars, preserved, transcript_json, cfg, procs, workdir, attempts, segments, all_segments, index,
                   call, raw, generated, mux_count, exc, exit_status, stderr_msg>>

\* variant: output that is not JSON is raised as PipelineError
CallOutcome_strict(returncode, stdout, allow_fallback) ==
    IF returncode # 0 THEN "PipelineError"
    ELSE IF stdout = "empty" THEN "PipelineError"
    ELSE IF stdout = "malformed" THEN "PipelineError"
    ELSE IF stdout = "non_object" THEN "Other"
    ELSE IF stdout = "beep_note" /\ ~allow_fallback THEN "PipelineError"
    ELSE "ok"

\* variant: the beep marker is raised whatever allow_fallback says
CallOutcome_no_flag(returncode, stdout, allow_fallback) ==
    IF returncode # 0 THEN "PipelineError"
    ELSE IF stdout = "empty" THEN "Other"
    ELSE IF stdout = "malformed" THEN "ok"
    ELSE IF stdout = "non_object" THEN "Other"
    ELSE IF stdout = "beep_note" THEN "PipelineError"
    ELSE "ok"

\* chatterbox_tts() after a subprocess has exited: status check, then the
\* last stdout line is parsed; only JSONDecodeError is swallowed
CallOutcome(returncode, stdout, allow_fallback) ==
    IF returncode # 0 THEN "PipelineError"
    ELSE IF stdout = "empty" THEN "Other"
    ELSE IF stdout = "malformed" THEN "ok"
    ELSE IF stdout = "non_object" THEN "Other"
    ELSE IF stdout = "beep_note" /\ ~allow_fallback THEN "PipelineError"
    ELSE "ok"

\* variant: a PipelineError of the synthesis is logged and the loop goes on
HandleCall_swallow(res) ==
    IF res \in {"ok", "PipelineError"}
    THEN /\ raw' = "tts"
         /\ pc' = "stretch"
         /\ UNCHANGED <<exc, stage>>
    ELSE /\ Raise(OtherError("chatterbox_tts"), "generate")
         /\ UNCHANGED raw

\* variant: a PipelineError of the synthesis is re-raised in both modes
HandleCall_reraise(res) ==
    IF res = "ok"
    THEN /\ raw' = "tts"
         /\ pc' = "stretch"
         /\ UNCHANGED <<exc, stage>>
    ELSE IF res = "PipelineError"
    THEN /\ Raise(PipelineError("chatterbox_tts"), "generate")
         /\ UNCHANGED raw
    ELSE /\ Raise(OtherError("chatterbox_tts"), "generate")
         /\ UNCHANGED raw

\* the try/except around chatterbox_tts() in generate_segments
HandleCall(res) ==
    IF res = "ok"
    THEN /\ raw' = "tts"
         /\ pc' = "stretch"
         /\ UNCHANGED <<exc, stage>>
    ELSE IF res = "PipelineError"
    THEN IF cfg.allow_fallback
         THEN /\ pc' = "beep"
              /\ UNCHANGED <<raw, exc, stage>>
         ELSE /\ Raise(PipelineError("chatterbox_tts"), "generate")
              /\ UNCHANGED raw
    ELSE /\ Raise(OtherError("chatterbox_tts"), "generate")
         /\ UNCHANGED raw

\* a subprocess of chatterbox_tts() exited within its timeout
Exited(out) ==
    LET returncode == IF out = "exit_fail" THEN 1 ELSE 0
        stdout == IF out = "exit_fail" THEN "none" ELSE out
        res == CallOutcome(returncode, stdout, cfg.allow_fallback)
    IN  /\ call' = [call EXCEPT !.rc = returncode, !.stdout = stdout, !.res = res]
        /\ HandleCall(res)

\* chatterbox_tts(): the command is built and the first subprocess started
chatterbox_tts_launch ==
    /\ pc = "gen_loop"
    /\ index <= Len(all_segments)
    /\ call' = [NoCall EXCEPT !.index = index, !.launches = 1,
                              !.first = FirstCmd(cfg.env), !.res = "running"]
    /\ raw' = "none"
    /\ procs' = procs \cup {"tts_1"}
    /\ pc' = "tts_wait1"
    /\ UNCHANGED <<fn_vars, preserved, transcript_json, cfg, workdir, stage, attempts, segments, all_segments, index,
                   generated, mux_count, exc, exit_status, stderr_msg>>

\* variant: the timeout is raised without waiting for the child to end
chatterbox_tts_finish_leak ==
    /\ pc = "tts_wait1"
    /\ \E out \in {"timeout", "exit_fail"} \cup StdoutKinds :
         IF out = "timeout"
         THEN /\ call' = [call EXCEPT !.timeouts = 1]
              /\ pc' = "tts_retry"
              /\ UNCHANGED <<procs, raw, exc, stage>>
         ELSE /\ procs' = procs \ {"tts_1"}
              /\ Exited(out)
    /\ UNCHANGED <<fn_vars, preserved, transcript_json, cfg, workdir, attempts, segments, all_segments, index,
                   generated, mux_count, exit_status, stderr_msg>>

\* subprocess.run returns, or raises TimeoutExpired after killing and
\* reaping the child
chatterbox_tts_finish ==
    /\ pc = "tts_wait1"
    /\ procs' = procs \ {"tts_1"}
    /\ \E out \in {"timeout", "exit_fail"} \cup StdoutKinds :
         IF out = "timeout"
         THEN /\ call' = [call EXCEPT !.timeouts = 1]
              /\ pc' = "tts_retry"
              /\ UNCHANGED <<raw, exc, stage>>
         ELSE Exited(out)
    /\ UNCHANGED <<fn_vars, preserved, transcript_json, cfg, workdir, attempts, segments, all_segments, index,
                   generated, mux_count, exit_status, stderr_msg>>

\* the TimeoutExpired handler: --steps / --max-new-tokens are replaced and
\* the command is started once more
chatterbox_tts_retry_launch ==
    /\ pc = "tts_retry"
    /\ call' = [call EXCEPT !.launches = @ + 1,
                            !.retry = RetryCmd(call.first, all_segments[index].words)]
    /\ procs' = procs \cup {"tts_2"}
    /\ pc' = "tts_wait2"
    /\ UNCHANGED <<fn_vars, preserved, transcript_json, cfg, workdir, stage, attempts, segments, all_segments, index,
                   raw, generated, mux_count, exc, exit_status, stderr_msg>>

\* variant: a timeout of the retry leads to another retry
chatterbox_tts_retry_finish_loop ==
    /\ pc = "tts_wait2"
    /\ procs' = procs \ {"tts_2"}
    /\ \E out \in {"timeout", "exit_fail"} \cup StdoutKinds :
         IF out = "timeout"
         THEN /\ call' = [call EXCEPT !.timeouts = 2]
              /\ pc' = "tts_retry"
              /\ UNCHANGED <<raw, exc, stage>>
         ELSE Exited(out)
    /\ UNCHANGED <<fn_vars, preserved, transcript_json, cfg, workdir, attempts, segments, all_segments, index,
                   generated, mux_count, exit_status, stderr_msg>>

\* the retry returns, or times out as well: PipelineError
chatterbox_tts_retry_finish ==
    /\ pc = "tts_wait2"
    /\ procs' = procs \ {"tts_2"}
    /\ \E out \in {"timeout", "exit_fail"} \cup StdoutKinds :
         IF out = "timeout"
         THEN /\ call' = [call EXCEPT !.timeouts = 2, !.res = "PipelineError"]
              /\ HandleCall("PipelineError")
         ELSE Exited(out)
    /\ UNCHANGED <<fn_vars, preserved, transcript_json, cfg, workdir, attempts, segments, all_segments, index,
                   generated, mux_count, exit_status, stderr_msg>>

\* synthesize_beep(): ffmpeg writes the tone over the raw clip
synthesize_beep_launch ==
    /\ pc = "beep"
    /\ procs' = procs \cup {"ffmpeg_beep"}
    /\ pc' = "beep_wait"
    /\ UNCHANGED <<fn_vars, preserved, transcript_json, cfg, workdir, stage, attempts, segments, all_segments, index,
                   call, raw, generated, mux_count, exc, exit_status, stderr_msg>>

\* any exception of synthesize_beep is re-raised as PipelineError
synthesize_beep_finish ==
    /\ pc = "beep_wait"
    /\ procs' = procs \ {"ffmpeg_beep"}
    /\ \E returncode \in {0, 1} :
         IF returncode # 0
         THEN /\ Raise(PipelineError("synthesize_beep"), "generate")
              /\ UNCHANGED raw
         ELSE /\ raw' = "beep"
              /\ pc' = "stretch"
              /\ UNCHANGED <<exc, stage>>
    /\ UNCHANGED <<fn_vars, preserved, transcript_json, cfg, workdir, attempts, segments, all_segments, index, call,
                   generated, mux_count, exit_status, stderr_msg>>

\* durations ffprobe can report for a raw clip, in ms
MeasuredMs == {0, 2000, 3000}

\* target_duration=segment.duration or 1e-3, then max(0.1, target_duration)
TargetMs(seg) == Max(100, IF duration(seg) = 0 THEN 1 ELSE duration(seg))

\* the aligned clip of the current index is appended and the loop advances
AppendGenerated ==
    /\ generated' = Append(generated, [transcript |-> all_segments[index],
                                       audio_path |-> ClipPath(index - 1, "aligned")])
    /\ index' = index + 1
    /\ pc' = "gen_loop"

\* stretch_segment(): segment_audio_duration starts ffprobe
segment_audio_duration_launch ==
    /\ pc = "stretch"
    /\ procs' = procs \cup {"ffprobe"}
    /\ pc' = "probe_wait"
    /\ UNCHANGED <<fn_vars, preserved, transcript_json, cfg, workdir, stage, attempts, segments, all_segments, index,
                   call, raw, generated, mux_count, exc, exit_status, stderr_msg>>

\* ffprobe exited; stretch_segment rejects a non-positive duration and
\* chooses between the copy and the time-stretch
segment_audio_duration_finish ==
    /\ pc = "probe_wait"
    /\ procs' = procs \ {"ffprobe"}
    /\ \/ Raise(PipelineError("ffprobe"), "generate")
       \/ \E reported \in MeasuredMs :
            IF reported <= 0
            THEN Raise(PipelineError("stretch_segment"), "generate")
            ELSE /\ pc' = IF reported = TargetMs(all_segments[index])
                          THEN "cp" ELSE "speedup"
                 /\ UNCHANGED <<exc, stage>>
    /\ UNCHANGED <<fn_vars, preserved, transcript_json, cfg, workdir, attempts, segments, all_segments, index, call,
                   raw, generated, mux_count, exit_status, stderr_msg>>

\* speed == 1.0: run_command(["cp", ...]) starts the copy
stretch_copy_launch ==
    /\ pc = "cp"
    /\ procs' = procs \cup {"cp"}
    /\ pc' = "cp_wait"
    /\ UNCHANGED <<fn_vars, preserved, transcript_json, cfg, workdir, stage, attempts, segments, all_segments, index,
                   call, raw, generated, mux_count, exc, exit_status, stderr_msg>>

stretch_copy_finish ==
    /\ pc = "cp_wait"
    /\ procs' = procs \ {"cp"}
    /\ \E returncode \in {0, 1} :
         IF returncode # 0
         THEN /\ Raise(PipelineError("cp"), "generate")
              /\ UNCHANGED <<generated, index>>
         ELSE /\ AppendGenerated
              /\ UNCHANGED <<exc, stage>>
    /\ UNCHANGED <<fn_vars, preserved, transcript_json, cfg, workdir, attempts, segments, all_segments, call, raw,
                   mux_count, exit_status, stderr_msg>>

\* speed != 1.0: pydub loads, stretches and exports the clip in process
stretch_speedup ==
    /\ pc = "speedup"
    /\ \/ /\ AppendGenerated
          /\ UNCHANGED <<exc, stage>>
       \/ /\ Raise(OtherError("speedup"), "generate")
          /\ UNCHANGED <<generated, index>>
    /\ UNCHANGED <<fn_vars, preserved, transcript_json, cfg, procs, workdir, attempts, segments, all_segments, call,
                   raw, mux_count, exit_status, stderr_msg>>

\* ------------------------------------------------- assembly, mux and exit
\* assemble_segments(), in process: an empty list raises PipelineError
assemble_segments ==
    /\ pc = "assemble"
    /\ IF generated = <<>>
       THEN Raise(PipelineError("assemble_segments"), "assemble")
       ELSE \/ /\ stage' = [stage EXCEPT !["assemble"] = "ok"]
               /\ pc' = "mux"
               /\ UNCHANGED exc
            \/ Raise(OtherError("assemble_segments"), "assemble")
    /\ UNCHANGED <<fn_vars, preserved, transcript_json, cfg, procs, workdir, attempts, segments, all_segments, index,
                   call, raw, generated, mux_count, exit_status, stderr_msg>>

\* replace_audio_track(): run_command starts the ffmpeg mux
replace_audio_track_launch ==
    /\ pc = "mux"
    /\ procs' = procs \cup {"ffmpeg_mux"}
    /\ mux_count' = mux_count + 1
    /\ stage' = [stage EXCEPT !["mux"] = "running"]
    /\ pc' = "mux_wait"
    /\ UNCHANGED <<fn_vars, preserved, transcript_json, cfg, workdir, attempts, segments, all_segments, index, call,
                   raw, generated, exc, exit_status, stderr_msg>>

replace_audio_track_finish ==
    /\ pc = "mux_wait"
    /\ procs' = procs \ {"ffmpeg_mux"}
    /\ \E returncode \in {0, 1} :
         IF returncode # 0
         THEN Raise(PipelineError("replace_audio_track"), "mux")
         ELSE /\ stage' = [stage EXCEPT !["mux"] = "ok"]
              /\ pc' = "keep"
              /\ UNCHANGED exc
    /\ UNCHANGED <<fn_vars, preserved, transcript_json, cfg, workdir, attempts, segments, all_segments, index, call,
                   raw, generated, mux_count, exit_status, stderr_msg>>

\* main(): with --keep-workdir the working files are copied next to the
\* output video; the with block is then left
main_keep_workdir ==
    /\ pc = "keep"
    /\ \/ /\ pc' = "cleanup"
          /\ preserved' = cfg.keep_workdir
          /\ UNCHANGED exc
       \/ /\ cfg.keep_workdir
          /\ exc' = OtherError("keep_workdir")
          /\ pc' = "cleanup"
          /\ UNCHANGED preserved
    /\ UNCHANGED <<fn_vars, transcript_json, cfg, procs, workdir, stage, attempts, segments, all_segments,
                   index, call, raw, generated, mux_count, exit_status, stderr_msg>>

\* TemporaryDirectory.__exit__: the working directory is removed, on the
\* normal path and while an exception propagates
\* variant: the directory is left behind while an exception propagates
main_cleanup_unless_raised ==
    /\ pc = "cleanup"
    /\ workdir' = (workdir /\ exc.kind = "Other")
    /\ pc' = "exit"
    /\ UNCHANGED <<fn_vars, preserved, transcript_json, cfg, procs, stage, attempts, segments, all_segments, index,
                   call, raw, generated, mux_count, exc, exit_status, stderr_msg>>

main_cleanup ==
    /\ pc = "cleanup"
    /\ workdir' = FALSE
    /\ pc' = "exit"
    /\ UNCHANGED <<fn_vars, preserved, transcript_json, cfg, procs, stage, attempts, segments, all_segments, index,
                   call, raw, generated, mux_count, exc, exit_status, stderr_msg>>

\* __main__: sys.exit(main()); a PipelineError is printed and exits 1, any
\* other exception ends the interpreter with a traceback and status 1
\* variant: only a PipelineError turns into a non-zero status
ExitStatus_pipeline_only(e) == IF e.kind = "PipelineError" THEN 1 ELSE 0

ExitStatus(e) == IF e.kind = "none" THEN 0 ELSE 1

main_exit ==
    /\ pc = "exit"
    /\ exit_status' = ExitStatus(exc)
    /\ stderr_msg' = (exc.kind # "none")
    /\ pc' = "done"
    /\ UNCHANGED <<fn_vars, preserved, transcript_json, cfg, procs, workdir, stage, attempts, segments, all_segments,
                   index, call, raw, generated, mux_count, exc>>

Next ==
    \/ main_check_inputs
    \/ extract_audio_launch
    \/ extract_audio_finish
    \/ load_transcript_from_json
    \/ transcribe_audio
    \/ transcribe_with_faster_whisper
    \/ whisper_cpp_launch
    \/ whisper_cpp_finish
    \/ whisper_cpp_retry_launch
    \/ whisper_cpp_retry_finish
    \/ transcribe_with_openai_whisper
    \/ main_save_transcript
    \/ generate_segments_split
    \/ generate_segments_return
    \/ chatterbox_tts_launch
    \/ chatterbox_tts_finish
    \/ chatterbox_tts_retry_launch
    \/ chatterbox_tts_retry_finish
    \/ synthesize_beep_launch
    \/ synthesize_beep_finish
    \/ segment_audio_duration_launch
    \/ segment_audio_duration_finish
    \/ stretch_copy_launch
    \/ stretch_copy_finish
    \/ stretch_speedup
    \/ assemble_segments
    \/ replace_audio_track_launch
    \/ replace_audio_track_finish
    \/ main_keep_workdir
    \/ main_cleanup
    \/ main_exit

Spec == Init /\ [][Next]_vars

\* ---------------------------------------------------------------- claims
Terminal == {"cleanup", "exit", "done"}

\* synthesis of the current segment failed by a double timeout or by a
\* non-zero exit status of the attempt whose result is used
SynthFailed == call.res = "PipelineError" /\ (call.timeouts = 2 \/ call.rc = 1)

\* C1: one chatterbox_tts() call launches at most two subprocesses; a first
\* timeout is followed by exactly one more launch, a call without timeout
\* launches once, and a second timeout raises PipelineError at once.
C1_OneRetry ==
    /\ call.launches <= 2
    /\ (call.timeouts = 0 /\ call.res # "none" => call.launches = 1)
    /\ (call.timeouts >= 1 /\ pc # "tts_retry" => call.launches = 2)
    /\ (call.timeouts = 2 => call.res = "PipelineError" /\ pc # "tts_retry"
                             /\ "tts_2" \notin procs)

C1_Witness ==
    /\ call.timeouts = 2
    /\ call.launches = 2
    /\ exc = PipelineError("chatterbox_tts")

\* C2: without allow_fallback a failed synthesis of segment i raises
\* PipelineError out of generate_segments: no later segment is synthesized,
\* segment i is not stretched, assembly and mux never start.
C2_FailFast ==
    (~cfg.allow_fallback /\ SynthFailed) =>
        /\ exc = PipelineError("chatterbox_tts")
        /\ stage["generate"] = "failed"
        /\ pc \in Terminal
        /\ index = call.index
        /\ Len(generated) = call.index - 1
        /\ raw = "none"
        /\ stage["assemble"] = "idle"
        /\ stage["mux"] = "idle"
        /\ mux_count = 0
        /\ procs = {}

C2_Witness ==
    /\ ~cfg.allow_fallback
    /\ SynthFailed
    /\ call.index = 2
    /\ Len(all_segments) = 3
    /\ pc = "done"

C4_Fallback ==
    cfg.allow_fallback =>
        /\ (call.res = "PipelineError" =>
               \/ pc \in {"beep", "beep_wait"} /\ raw = "none" /\ index = call.index
               \/ raw = "beep"
               \/ exc = PipelineError("synthesize_beep"))
        /\ (exc.at = "chatterbox_tts" => exc.kind = "Other")
        /\ (exc.at = "synthesize_beep" => exc.kind = "PipelineError" /\ raw = "none")
        /\ (stage["generate"] = "failed" =>
               exc.at \in {"chatterbox_tts", "synthesize_beep", "ffprobe",
                           "stretch_segment", "cp", "speedup"})
        /\ (stage["generate"] = "ok" =>
               /\ Len(generated) = Len(all_segments)
               /\ \A i \in 1..Len(generated) :
                      generated[i] = [transcript |-> all_segments[i],
                                      audio_path |-> ClipPath(i - 1, "aligned")])

C4_Witness ==
    /\ cfg.allow_fallback
    /\ SynthFailed
    /\ raw = "beep"
    /\ stage["generate"] = "ok"
    /\ Len(generated) = 3
    /\ all_segments # segments

\* C5: the retry carries --steps and --max-new-tokens values strictly
\* smaller than the values in effect on the first attempt.
C5_RetryReduced ==
    call.launches = 2 =>
        /\ EffSteps(call.retry) < EffSteps(call.first)
        /\ EffTokens(call.retry) < EffTokens(call.first)

\* C6: a result line with the fallback_beep_audio marker raises
\* PipelineError without allow_fallback and is accepted with it; a result
\* line without the marker is accepted in both modes.
C6_BeepMarker ==
    /\ (call.rc = 0 /\ call.stdout = "beep_note" /\ ~cfg.allow_fallback) =>
           /\ call.res = "PipelineError"
           /\ exc = PipelineError("chatterbox_tts")
    /\ (call.rc = 0 /\ call.stdout = "beep_note" /\ cfg.allow_fallback) =>
           /\ call.res = "ok"
           /\ raw = "tts"
    /\ (call.rc = 0 /\ call.stdout = "result") =>
           /\ call.res = "ok"
           /\ raw = "tts"

C6_Witness ==
    /\ call.rc = 0
    /\ call.stdout = "beep_note"
    /\ cfg.allow_fallback
    /\ Len(generated) = call.index
    /\ pc = "gen_loop"

IsPrefix(s, t) == Len(s) <= Len(t) /\ s = SubSeq(t, 1, Len(s))

AutoChain ==
    IF cfg.cpp_model THEN <<"faster-whisper", "whisper-cpp", "openai-whisper">>
    ELSE <<"faster-whisper", "openai-whisper">>

\* C7: with transcriber = auto the backends are called in the order
\* faster-whisper, whisper.cpp (only with a model configured),
\* openai-whisper; each one only after all earlier ones raised
\* PipelineError; the segments are those of the first success; when the
\* chain is exhausted the error of openai-whisper propagates.
C7_AutoChain ==
    cfg.mode = "auto" =>
        /\ IsPrefix([i \in 1..Len(attempts) |-> attempts[i].backend], AutoChain)
        /\ \A i \in 1..(Len(attempts) - 1) : attempts[i].outcome = "PipelineError"
        /\ (stage["transcribe"] = "ok" =>
               /\ attempts # <<>>
               /\ attempts[Len(attempts)].outcome = "ok"
               /\ segments = attempts[Len(attempts)].segs)
        /\ (stage["transcribe"] = "failed" =>
               /\ attempts # <<>>
               /\ exc.at = attempts[Len(attempts)].backend
               /\ exc.kind = attempts[Len(attempts)].outcome)
        /\ ((stage["transcribe"] = "failed"
               /\ \A i \in 1..Len(attempts) : attempts[i].outcome = "PipelineError") =>
               exc = PipelineError("openai-whisper"))

C7_Witness ==
    /\ cfg.mode = "auto"
    /\ Len(attempts) = 3
    /\ stage["transcribe"] = "failed"
    /\ exc = PipelineError("openai-whisper")

StageOrder == <<"extract", "transcribe", "generate", "assemble", "mux">>

\* C8: a stage of main() starts only after every earlier stage succeeded;
\* assembly starts with every segment synthesized and stretched; the mux is
\* launched at most once and only after assembly succeeded.
C8_StageOrder ==
    /\ \A i \in 1..5, j \in 1..5 :
           (i < j /\ stage[StageOrder[j]] # "idle") => stage[StageOrder[i]] = "ok"
    /\ (stage["assemble"] # "idle" => Len(generated) = Len(all_segments))
    /\ mux_count <= 1
    /\ (mux_count = 1 <=> stage["mux"] # "idle")
    /\ (mux_count = 1 => stage["assemble"] = "ok")

C8_Witness ==
    /\ mux_count = 1
    /\ stage["mux"] = "ok"
    /\ Len(generated) = 3

AnyFailure == exc.kind # "none" \/ \E s \in Stages : stage[s] = "failed"

C10_OneProcess ==
    /\ Cardinality(procs) <= 1
    /\ ("tts_2" \in procs => "tts_1" \notin procs /\ call.timeouts = 1)
    /\ (procs \cap {"tts_1", "tts_2"} # {} =>
           /\ Len(generated) = call.index - 1
           /\ raw = "none")
    /\ (call.res # "none" => Len(generated) >= call.index - 1)

C10_Witness ==
    /\ "tts_2" \in procs
    /\ call.index = 2
    /\ Len(generated) = 1

\* ------------------------------------------- functions studied on their own
\* the variables of main() while a single function is studied
PipeIdle ==
    /\ pc = "idle"
    /\ cfg = [mode |-> "json", cpp_model |-> FALSE, allow_fallback |-> FALSE,
              keep_workdir |-> FALSE, env |-> [steps |-> Unset, tokens |-> Unset]]
    /\ procs = {}
    /\ workdir = FALSE
    /\ stage = [s \in Stages |-> "idle"]
    /\ attempts = <<>>
    /\ segments = <<>>
    /\ all_segments = <<>>
    /\ index = 0
    /\ call = NoCall
    /\ raw = "none"
    /\ generated = <<>>
    /\ mux_count = 0
    /\ exc = NoExc
    /\ exit_status = -1
    /\ stderr_msg = FALSE
    /\ preserved = FALSE
    /\ transcript_json = <<>>

\* ------------------------------------------------------ split_long_segment
\* arguments of split_long_segment: start and end in ms (end may lie before
\* start), the text a sequence of distinct words
SplitStarts == {0, 1000}
SplitEnds == {0, 500, 15000, 16000, 19000, 30900, 46000}
SplitInputs ==
    {[start |-> s, end |-> e, words |-> [i \in 1..n |-> i]] :
        s \in SplitStarts, e \in SplitEnds, n \in 0..MaxWords}

InitSplit ==
    /\ PipeIdle
    /\ fpc = "split"
    /\ segment \in SplitInputs
    /\ seg_duration = 0
    /\ sub_segments = <<>>
    /\ StretchIdle
    /\ AsmIdle
    /\ CliIdle
    /\ RtIdle

\* one call of split_long_segment(segment)
split_apply ==
    /\ fpc = "split"
    /\ seg_duration' = duration(segment)
    /\ sub_segments' = split_long_segment(segment)
    /\ fpc' = "split_done"
    /\ UNCHANGED <<pipe_vars, segment, stretch_vars, asm_vars, cli_vars, rt_vars>>

NextSplit == split_apply

SpecSplit == InitSplit /\ [][NextSplit]_vars

RECURSIVE ConcatWords(_)
ConcatWords(subs) ==
    IF subs = <<>> THEN <<>> ELSE Head(subs).words \o ConcatWords(Tail(subs))

SplitLong == fpc = "split_done" /\ seg_duration > MaxDurationMs

LastSub == sub_segments[Len(sub_segments)]

\* first at the original start, each next one where the previous ended,
\* all inside the original window, none longer than 15 s
SubsWellPlaced ==
    /\ Len(sub_segments) >= 1
    /\ sub_segments[1].start = segment.start
    /\ \A i \in 2..Len(sub_segments) : sub_segments[i].start = sub_segments[i - 1].end
    /\ \A i \in 1..Len(sub_segments) :
           /\ segment.start <= sub_segments[i].start
           /\ sub_segments[i].start <= sub_segments[i].end
           /\ sub_segments[i].end <= segment.end
           /\ sub_segments[i].end - sub_segments[i].start <= MaxDurationMs

\* C11: a segment longer than 15 s is split into at least one sub-segment
\* and the words of the sub-segments, concatenated in order, are exactly
\* the words of the original text.
C11_WordsPreserved ==
    SplitLong =>
        /\ Len(sub_segments) >= 1
        /\ ConcatWords(sub_segments) = segment.words

C11_Witness ==
    /\ SplitLong
    /\ Len(sub_segments) = 3
    /\ Len(sub_segments[3].words) = 1

\* C12 as stated: a segment of at most 15 s is returned unchanged; every
\* longer segment is cut into contiguous, ordered sub-segments inside the
\* original window, none longer than 15 s.
C12_Original ==
    fpc = "split_done" =>
        /\ (seg_duration <= MaxDurationMs => sub_segments = <<segment>>)
        /\ (seg_duration > MaxDurationMs => SubsWellPlaced)

\* C12 amended: the placement holds for every longer segment that has at
\* least one word; a longer segment without words is returned unchanged,
\* as one element longer than 15 s.
C12_Placement ==
    fpc = "split_done" =>
        /\ (seg_duration <= MaxDurationMs => sub_segments = <<segment>>)
        /\ (seg_duration > MaxDurationMs /\ segment.words # <<>> => SubsWellPlaced)
        /\ (seg_duration > MaxDurationMs /\ segment.words = <<>> =>
               sub_segments = <<segment>>)

C12_Witness ==
    /\ SplitLong
    /\ Len(sub_segments) = 2
    /\ sub_segments[2].start = segment.start + MaxDurationMs
    /\ sub_segments[2].end = segment.end

\* C13 as stated: for a segment longer than 15 s with at least one word the
\* first sub-segment starts at the original start and the last one ends at
\* the original end.
C13_Original ==
    (SplitLong /\ segment.words # <<>>) =>
        /\ sub_segments[1].start = segment.start
        /\ LastSub.end = segment.end

\* C13 amended: the first sub-segment starts at the original start and the
\* last one ends at min(start + 15 s * count, end), at or before the
\* original end; the window is covered only if 15 s * count reaches the
\* duration.
C13_Bounds ==
    (SplitLong /\ segment.words # <<>>) =>
        /\ sub_segments[1].start = segment.start
        /\ LastSub.end = Min(segment.start + Len(sub_segments) * MaxDurationMs,
                             segment.end)
        /\ LastSub.end <= segment.end
        /\ (LastSub.end = segment.end <=>
               Len(sub_segments) * MaxDurationMs >= seg_duration)

C13_Witness ==
    /\ SplitLong
    /\ segment.words # <<>>
    /\ Len(sub_segments) = 1
    /\ LastSub.end < segment.end

\* C14: duration is end - start when end >= start and 0 otherwise, never
\* negative.
C14_Duration ==
    /\ duration(segment) >= 0
    /\ (fpc = "split_done" =>
           /\ seg_duration = (IF segment.end >= segment.start
                              THEN segment.end - segment.start ELSE 0)
           /\ seg_duration >= 0)

C14_Witness ==
    /\ fpc = "split_done"
    /\ segment.end < segment.start
    /\ seg_duration = 0

\* --------------------------------------------------------- stretch_segment
\* durations of the raw clip as ffprobe reports them, and requested targets
ClipDurations == {-500, 0, 50, 100, 2000, 3000}
TargetDurations == {-1000, 0, 1, 50, 100, 2000, 3000}

InitStretch ==
    /\ PipeIdle
    /\ SplitIdle
    /\ AsmIdle
    /\ CliIdle
    /\ RtIdle
    /\ fpc = "stretch"
    /\ stretch_in \in [clip_ms : ClipDurations, target_duration : TargetDurations]
    /\ current_duration = 0
    /\ speed = [num |-> 0, den |-> 1]
    /\ stretch_out = NoStretchOut

\* variant: the requested target is used as it is
StretchTarget_unfloored(target_duration) == target_duration

\* target_duration = max(0.1, target_duration)
StretchTarget(target_duration) == Max(MinTargetMs, target_duration)

\* speed == 1.0
IsOne(ratio) == ratio.num = ratio.den

\* segment_audio_duration(input_path): ffprobe fails or reports a duration
stretch_measure ==
    /\ fpc = "stretch"
    /\ \/ /\ current_duration' = stretch_in.clip_ms
          /\ fpc' = "stretch_check"
          /\ UNCHANGED stretch_out
       \/ /\ stretch_out' = [stretch_out EXCEPT !.exc = PipelineError("ffprobe")]
          /\ fpc' = "stretch_done"
          /\ UNCHANGED current_duration
    /\ UNCHANGED <<pipe_vars, split_vars, asm_vars, cli_vars, rt_vars, stretch_in, speed>>

\* variant: the clip is always run through the time-stretch
stretch_ratio_always_stretch ==
    /\ fpc = "stretch_check"
    /\ IF current_duration <= 0
       THEN /\ stretch_out' = [stretch_out EXCEPT !.exc = PipelineError("stretch_segment")]
            /\ fpc' = "stretch_done"
            /\ UNCHANGED speed
       ELSE /\ speed' = [num |-> current_duration,
                         den |-> StretchTarget(stretch_in.target_duration)]
            /\ fpc' = "stretch_speedup"
            /\ UNCHANGED stretch_out
    /\ UNCHANGED <<pipe_vars, split_vars, asm_vars, cli_vars, rt_vars, stretch_in, current_duration>>

\* the duration is rejected if not positive; else the target is floored, the
\* ratio computed and the copy or the time-stretch selected
stretch_ratio ==
    /\ fpc = "stretch_check"
    /\ IF current_duration <= 0
       THEN /\ stretch_out' = [stretch_out EXCEPT !.exc = PipelineError("stretch_segment")]
            /\ fpc' = "stretch_done"
            /\ UNCHANGED speed
       ELSE /\ speed' = [num |-> current_duration,
                         den |-> StretchTarget(stretch_in.target_duration)]
            /\ fpc' = IF IsOne(speed') THEN "stretch_cp" ELSE "stretch_speedup"
            /\ UNCHANGED stretch_out
    /\ UNCHANGED <<pipe_vars, split_vars, asm_vars, cli_vars, rt_vars, stretch_in, current_duration>>

\* run_command(["cp", input_path, output_path])
stretch_cp ==
    /\ fpc = "stretch_cp"
    /\ \E returncode \in {0, 1} :
         stretch_out' = IF returncode # 0
                        THEN [stretch_out EXCEPT !.exc = PipelineError("cp")]
                        ELSE [stretch_out EXCEPT !.file = "copy"]
    /\ fpc' = "stretch_done"
    /\ UNCHANGED <<pipe_vars, split_vars, asm_vars, cli_vars, rt_vars, stretch_in, current_duration, speed>>

\* AudioSegment.from_file, speedup(playback_speed=speed), export
stretch_export ==
    /\ fpc = "stretch_speedup"
    /\ \/ stretch_out' = [stretch_out EXCEPT !.file = "stretched",
                                             !.speedup_calls = @ + 1]
       \/ stretch_out' = [stretch_out EXCEPT !.exc = OtherError("speedup")]
    /\ fpc' = "stretch_done"
    /\ UNCHANGED <<pipe_vars, split_vars, asm_vars, cli_vars, rt_vars, stretch_in, current_duration, speed>>

NextStretch ==
    \/ stretch_measure
    \/ stretch_ratio
    \/ stretch_cp
    \/ stretch_export

SpecStretch == InitStretch /\ [][NextStretch]_vars

\* segment_audio_duration has returned a value
Measured ==
    \/ fpc \in {"stretch_check", "stretch_cp", "stretch_speedup"}
    \/ fpc = "stretch_done" /\ stretch_out.exc.at # "ffprobe"

\* the ratio has been computed
RatioKnown ==
    \/ fpc \in {"stretch_cp", "stretch_speedup"}
    \/ fpc = "stretch_done" /\ stretch_out.exc.at \notin {"ffprobe", "stretch_segment"}

\* the output is the copy made by cp and speedup() was never called
CopiedOnly ==
    /\ fpc # "stretch_speedup"
    /\ stretch_out.speedup_calls = 0
    /\ stretch_out.file # "stretched"
    /\ (fpc = "stretch_done" /\ stretch_out.exc = NoExc => stretch_out.file = "copy")

\* C15 as stated: a clip of positive measured duration whose requested
\* target equals that duration is copied byte for byte and the time-stretch
\* is not invoked.
C15_Original ==
    (Measured /\ current_duration > 0
       /\ stretch_in.target_duration = current_duration /\ fpc # "stretch_check") =>
        CopiedOnly

\* C15 amended: this holds for a measured duration of at least 0.1 s; for a
\* positive duration below 0.1 s the target is floored to 0.1 s, so the
\* ratio is not 1 and the clip goes through the time-stretch, not the copy.
C15_NoOpCopy ==
    /\ (Measured /\ current_duration >= MinTargetMs
          /\ stretch_in.target_duration = current_duration /\ fpc # "stretch_check") =>
           CopiedOnly
    /\ (Measured /\ current_duration > 0 /\ current_duration < MinTargetMs
          /\ stretch_in.target_duration = current_duration /\ fpc # "stretch_check") =>
           /\ fpc # "stretch_cp"
           /\ stretch_out.file # "copy"
           /\ speed.num < speed.den

C15_Witness ==
    /\ fpc = "stretch_done"
    /\ current_duration = 2000
    /\ stretch_in.target_duration = 2000
    /\ stretch_out = [file |-> "copy", speedup_calls |-> 0, exc |-> NoExc]

\* C16: the ratio is current_duration / max(0.1 s, target_duration), with a
\* divisor that is never zero, for every target; a measured duration of 0
\* or less raises PipelineError and writes no output.
C16_Ratio ==
    /\ speed.den > 0
    /\ (RatioKnown =>
           /\ current_duration > 0
           /\ speed.num = current_duration
           /\ speed.den = (IF stretch_in.target_duration > MinTargetMs
                           THEN stretch_in.target_duration ELSE MinTargetMs))
    /\ (Measured /\ current_duration <= 0 /\ fpc # "stretch_check" =>
           /\ fpc = "stretch_done"
           /\ stretch_out = [file |-> "none", speedup_calls |-> 0,
                             exc |-> PipelineError("stretch_segment")])

C16_Witness ==
    /\ fpc = "stretch_done"
    /\ stretch_in.target_duration = 0
    /\ speed = [num |-> 2000, den |-> MinTargetMs]
    /\ stretch_out.file = "stretched"

\* ------------------------------------------------- assemble_segments alone
\* Times of a transcript are in microseconds here, so that the conversions
\* to the milliseconds of the track round; len(clip) is in ms.

\* int(x * 1000): truncation toward zero
TruncMs(t) == IF t >= 0 THEN t \div MsFactor ELSE -((-t) \div MsFactor)

\* int(math.ceil(x * 1000))
CeilMs(t) == -((-t) \div MsFactor)

\* generated segments: transcript start and end, length and path of the clip
GenA == [start |-> 2000000, end |-> 3000000, clip_ms |-> 1000, audio_path |-> "a"]
GenB == [start |-> 0, end |-> 5000500, clip_ms |-> 5000, audio_path |-> "b"]
GenC == [start |-> 3100900, end |-> 3500000, clip_ms |-> 400, audio_path |-> "c"]
GenD == [start |-> 3101000, end |-> 3600300, clip_ms |-> 500, audio_path |-> "d"]
GenN == [start |-> -500, end |-> 400000, clip_ms |-> 400, audio_path |-> "n"]
GenPool == {GenA, GenB, GenC, GenD, GenN}
AsmInputs == SeqsUpTo(GenPool, MaxAsm)

\* sorted(segments, key=lambda seg: seg.transcript.start): stable, so x goes
\* behind every element whose start is not greater
InsertByStart(sorted, x) ==
    LET n == Cardinality({i \in DOMAIN sorted : sorted[i].start <= x.start})
    IN  SubSeq(sorted, 1, n) \o <<x>> \o SubSeq(sorted, n + 1, Len(sorted))

SortByStart_unsorted(segs) == segs

RECURSIVE SortByStart(_)
SortByStart(segs) ==
    IF segs = <<>> THEN <<>>
    ELSE InsertByStart(SortByStart(SubSeq(segs, 1, Len(segs) - 1)), segs[Len(segs)])

\* total_duration_ms of the silent base track
TotalDurationMs_floor(segs) == TruncMs(segs[Len(segs)].end) + TailPaddingMs
TotalDurationMs(segs) == CeilMs(segs[Len(segs)].end) + TailPaddingMs

\* if gap_end - gap_start > 100
NeedsSilence_at_threshold(gap_start, gap_end) == gap_end - gap_start >= GapThresholdMs
NeedsSilence(gap_start, gap_end) == gap_end - gap_start > GapThresholdMs

InitAsm ==
    /\ PipeIdle
    /\ SplitIdle
    /\ StretchIdle
    /\ CliIdle
    /\ RtIdle
    /\ fpc = "asm"
    /\ asm_in \in AsmInputs
    /\ ordered = <<>>
    /\ final_audio = NoTrack
    /\ prev_end_ms = 0
    /\ k = 0
    /\ asm_out = NoAsmOut

\* the same without the check for an empty list: an empty track is built
assemble_begin_unchecked ==
    /\ fpc = "asm"
    /\ ordered' = SortByStart(asm_in)
    /\ final_audio' = [len |-> IF ordered' = <<>> THEN TailPaddingMs
                                ELSE TotalDurationMs(ordered'),
                       overlays |-> <<>>, silences |-> <<>>]
    /\ prev_end_ms' = 0
    /\ k' = 1
    /\ fpc' = "asm_loop"
    /\ UNCHANGED <<pipe_vars, split_vars, stretch_vars, cli_vars, rt_vars, asm_in, asm_out>>

\* sort, refuse an empty list, build the silent base track
assemble_begin ==
    /\ fpc = "asm"
    /\ ordered' = SortByStart(asm_in)
    /\ IF ordered' = <<>>
       THEN /\ asm_out' = [asm_out EXCEPT !.exc = PipelineError("assemble_segments")]
            /\ fpc' = "asm_done"
            /\ UNCHANGED <<final_audio, k>>
       ELSE /\ final_audio' = [len |-> TotalDurationMs(ordered'),
                               overlays |-> <<>>, silences |-> <<>>]
            /\ k' = 1
            /\ fpc' = "asm_loop"
            /\ UNCHANGED asm_out
    /\ prev_end_ms' = 0
    /\ UNCHANGED <<pipe_vars, split_vars, stretch_vars, cli_vars, rt_vars, asm_in>>

\* the silences of the track after the gap check before the k-th clip
WithGap(gap_start, gap_end) ==
    IF NeedsSilence(gap_start, gap_end)
    THEN Append(final_audio.silences,
                [before |-> k, position |-> gap_start, duration |-> gap_end - gap_start])
    ELSE final_audio.silences

\* one iteration of the loop: gap silence, load and fade the clip, overlay it;
\* an overlay leaves the length of the base track as it is
assemble_overlay ==
    /\ fpc = "asm_loop"
    /\ k <= Len(ordered)
    /\ LET seg == ordered[k]
           gap_start == prev_end_ms
           gap_end == TruncMs(seg.start)
           position_ms == TruncMs(seg.start)
           end_ms == Max(prev_end_ms, position_ms + seg.clip_ms)
       IN  /\ final_audio' =
                 [final_audio EXCEPT
                    !.silences = WithGap(gap_start, gap_end),
                    !.overlays = Append(@, [position |-> position_ms,
                                            audio_path |-> seg.audio_path,
                                            len |-> seg.clip_ms,
                                            prev_end_ms |-> end_ms])]
           /\ prev_end_ms' = end_ms
    /\ k' = k + 1
    /\ UNCHANGED <<pipe_vars, split_vars, stretch_vars, cli_vars, rt_vars, fpc, asm_in, ordered, asm_out>>

\* AudioSegment.from_file raises on the k-th clip, after the gap check
assemble_load_fails ==
    /\ fpc = "asm_loop"
    /\ k <= Len(ordered)
    /\ final_audio' = [final_audio EXCEPT
                         !.silences = WithGap(prev_end_ms, TruncMs(ordered[k].start))]
    /\ asm_out' = [asm_out EXCEPT !.exc = OtherError("assemble_segments")]
    /\ fpc' = "asm_done"
    /\ UNCHANGED <<pipe_vars, split_vars, stretch_vars, cli_vars, rt_vars, asm_in, ordered, prev_end_ms, k>>

\* normalize, compress, export: the track is written with the length it has
assemble_export ==
    /\ fpc = "asm_loop"
    /\ k > Len(ordered)
    /\ \/ asm_out' = [file |-> "written", len |-> final_audio.len, exc |-> NoExc]
       \/ asm_out' = [asm_out EXCEPT !.exc = OtherError("assemble_segments")]
    /\ fpc' = "asm_done"
    /\ UNCHANGED <<pipe_vars, split_vars, stretch_vars, cli_vars, rt_vars,
                   asm_in, ordered, final_audio, prev_end_ms, k>>

NextAsm ==
    \/ assemble_begin
    \/ assemble_overlay
    \/ assemble_load_fails
    \/ assemble_export

SpecAsm == InitAsm /\ [][NextAsm]_vars

\* the base track exists
TrackBuilt == fpc \in {"asm_loop", "asm_done"} /\ ordered # <<>>

\* C17: assemble_segments called with no generated segment raises
\* PipelineError: no track is built, nothing is overlaid, no file is written.
C17_EmptyRefused ==
    (asm_in = <<>> /\ fpc # "asm") =>
        /\ fpc = "asm_done"
        /\ asm_out = [file |-> "none", len |-> 0,
                      exc |-> PipelineError("assemble_segments")]
        /\ final_audio = NoTrack

C17_Witness ==
    /\ asm_in = <<>>
    /\ fpc = "asm_done"
    /\ asm_out.exc.kind = "PipelineError"

\* p is the least whole number of ms not below t microseconds
IsCeilMs(p, t) == (p - 1) * MsFactor < t /\ t <= p * MsFactor

\* p is the greatest whole number of ms not above t microseconds
IsFloorMs(p, t) == p * MsFactor <= t /\ t < (p + 1) * MsFactor

\* p is t microseconds cut to whole ms toward zero
IsTruncMs(p, t) == IF t >= 0 THEN IsFloorMs(p, t) ELSE IsFloorMs(-p, -t)

\* C18: for a non-empty input the track is ceil(E * 1000) + 1000 ms long,
\* E the end of the segment sorted last, which has the greatest start; that is
\* at least E plus the 1 s tail, no overlay or silence changes it, and the
\* exported file has that length.
C18_TrackLength ==
    TrackBuilt =>
        LET last == ordered[Len(ordered)]
        IN  /\ \E i \in DOMAIN asm_in : asm_in[i] = last
            /\ \A i \in DOMAIN asm_in : asm_in[i].start <= last.start
            /\ IsCeilMs(final_audio.len - TailPaddingMs, last.end)
            /\ final_audio.len * MsFactor >= last.end + TailPaddingMs * MsFactor
            /\ asm_out.file = "written" => asm_out.len = final_audio.len

C18_Witness ==
    /\ fpc = "asm_done"
    /\ asm_in = <<GenB, GenA, GenD>>
    /\ Len(final_audio.overlays) = 3
    /\ final_audio.len = 4601
    /\ asm_out = [file |-> "written", len |-> 4601, exc |-> NoExc]

\* every order of the segments s
Perms(s) ==
    LET n == Len(s)
        Bij == {f \in [1..n -> 1..n] : \A a, b \in 1..n : a # b => f[a] # f[b]}
    IN  {[i \in 1..n |-> s[f[i]]] : f \in Bij}

DistinctStarts(s) == \A a, b \in DOMAIN s : a # b => s[a].start # s[b].start

\* the (position, clip) overlays made so far
Placed ==
    [i \in DOMAIN final_audio.overlays |->
        [position |-> final_audio.overlays[i].position,
         audio_path |-> final_audio.overlays[i].audio_path]]

\* the first n (position, clip) overlays of a run on the input q
PlacedOf(q, n) ==
    LET o == SortByStart(q)
    IN  [i \in 1..n |-> [position |-> TruncMs(o[i].start),
                         audio_path |-> o[i].audio_path]]

\* the clips are the input's, each once, overlaid by non-decreasing start,
\* and every order of an input with distinct starts gives the same overlays
OverlayOrder ==
    /\ ordered \in Perms(asm_in)
    /\ \A i \in DOMAIN ordered : \A j \in DOMAIN ordered :
           i < j => ordered[i].start <= ordered[j].start
    /\ Len(final_audio.overlays) = k - 1
    /\ \A i \in DOMAIN final_audio.overlays :
           final_audio.overlays[i].audio_path = ordered[i].audio_path
    /\ DistinctStarts(asm_in) =>
           \A q \in Perms(asm_in) : PlacedOf(q, Len(Placed)) = Placed

\* C19 as stated: the clips are overlaid by non-decreasing start whatever the
\* order of the input, each at floor(start * 1000) ms.
C19_Original ==
    TrackBuilt =>
        /\ OverlayOrder
        /\ \A i \in DOMAIN final_audio.overlays :
               IsFloorMs(final_audio.overlays[i].position, ordered[i].start)

\* C19: the clips are overlaid by non-decreasing start whatever the order of
\* the input, each at int(start * 1000) ms: start * 1000 cut toward zero,
\* which is floor(start * 1000) for a start that is not negative.
C19_Order ==
    TrackBuilt =>
        /\ OverlayOrder
        /\ \A i \in DOMAIN final_audio.overlays :
               /\ IsTruncMs(final_audio.overlays[i].position, ordered[i].start)
               /\ ordered[i].start >= 0 =>
                      IsFloorMs(final_audio.overlays[i].position, ordered[i].start)

C19_Witness ==
    /\ fpc = "asm_done"
    /\ asm_in = <<GenD, GenA, GenN>>
    /\ Placed = <<[position |-> 0, audio_path |-> "n"],
                  [position |-> 2000, audio_path |-> "a"],
                  [position |-> 3101, audio_path |-> "d"]>>
    /\ asm_out.file = "written"

\* the end of the clips placed up to the i-th: the greatest position + len
RunningEnd(i) ==
    LET ends == {final_audio.overlays[j].position + final_audio.overlays[j].len :
                     j \in 1..i} \cup {0}
    IN  CHOOSE e \in ends : \A other \in ends : other <= e

\* the silences inserted before the i-th clip
SilencesBefore(i) ==
    {j \in DOMAIN final_audio.silences : final_audio.silences[j].before = i}

\* C20: silence is inserted before a clip exactly when the clip's offset is
\* more than 100 ms past the running end of the clips placed so far (0 before
\* the first), it spans exactly that gap, and the running end, the greatest
\* end of a clip placed, never decreases.
C20_GapSilence ==
    TrackBuilt =>
        /\ prev_end_ms = RunningEnd(Len(final_audio.overlays))
        /\ \A i \in DOMAIN final_audio.overlays :
               LET before == IF i = 1 THEN 0 ELSE final_audio.overlays[i - 1].prev_end_ms
                   gap == final_audio.overlays[i].position - before
               IN  /\ before = RunningEnd(i - 1)
                   /\ final_audio.overlays[i].prev_end_ms = RunningEnd(i)
                   /\ final_audio.overlays[i].prev_end_ms >= before
                   /\ Cardinality(SilencesBefore(i)) = (IF gap > GapThresholdMs THEN 1 ELSE 0)
                   /\ \A j \in SilencesBefore(i) :
                          /\ final_audio.silences[j].position = before
                          /\ final_audio.silences[j].duration = gap
        /\ \A j \in DOMAIN final_audio.silences :
               final_audio.silences[j].before \in 1..k

C20_Witness ==
    /\ fpc = "asm_done"
    /\ asm_in = <<GenC, GenA>>
    /\ final_audio.silences = <<[before |-> 1, position |-> 0, duration |-> 2000]>>
    /\ Len(final_audio.overlays) = 2
    /\ final_audio.overlays[2].position = prev_end_ms - 400
    /\ final_audio.overlays[2].position - final_audio.overlays[1].prev_end_ms = GapThresholdMs
    /\ asm_out.file = "written"

\* ------------------------------------------------ chatterbox_tts.py, a run
\* what one run of the script meets: the command line as argparse sees it,
\* the CHATTERBOX_* variables read by int(), the imports, the model load, the
\* --speaker-wav file, the generate() calls and the writing of the audio
CliInputs ==
    [argv : {"ok", "usage_error", "help"},
     env : {"int", "junk"},
     imports : {"ok", "missing"},
     from_pretrained : {"ok", "type_error", "raises"},
     speaker_wav : {"absent", "missing", "decodes", "undecodable"},
     generate : {"audio", "prompt_rejected", "raises", "none"},
     persist : {"ok", "mkdir_fails", "save_fails"}]

\* print(json.dumps({...}), file=sys.stdout): one line holding one object
JsonLine(keys) == [kind |-> "json", keys |-> keys]

\* the keys of the object printed on success
ResultKeys ==
    {"out_path", "duration_sec", "sr", "used_prompt_arg", "normalized_prompt_path"}

InitCli ==
    /\ PipeIdle
    /\ SplitIdle
    /\ StretchIdle
    /\ AsmIdle
    /\ RtIdle
    /\ fpc = "cli"
    /\ cli_in \in CliInputs
    /\ cli_stdout = <<>>
    /\ cli_stderr = <<>>
    /\ cli_events = {}
    /\ cli_exit = Unset

\* the process ends with this status
CliExit(status, event) ==
    /\ cli_exit' = status
    /\ cli_events' = cli_events \cup {event}
    /\ fpc' = "cli_done"

\* return <status> of main() after printing an error object
CliReturn(status, event, keys) ==
    /\ cli_stdout' = Append(cli_stdout, JsonLine(keys))
    /\ CliExit(status, event)

\* an exception leaves main(): __main__ prints {"error": ...} and exits 1
CliUncaught(event) == CliReturn(1, event, {"error"})

\* the argparse defaults call int() on the environment, then parse_args():
\* a rejected command line is SystemExit(2) with the usage on stderr, --help
\* is SystemExit(0) with the help text on stdout; __main__ re-raises both
cli_parse_args ==
    /\ fpc = "cli"
    /\ IF cli_in.env = "junk"
       THEN /\ CliUncaught("exception")
            /\ UNCHANGED cli_stderr
       ELSE CASE cli_in.argv = "usage_error" ->
                   /\ cli_stderr' = Append(cli_stderr, "usage")
                   /\ CliExit(2, "usage_error")
                   /\ UNCHANGED cli_stdout
              [] cli_in.argv = "help" ->
                   /\ cli_stdout' = Append(cli_stdout, [kind |-> "text", keys |-> {}])
                   /\ CliExit(0, "help")
                   /\ UNCHANGED cli_stderr
              [] OTHER ->
                   /\ fpc' = "cli_import"
                   /\ UNCHANGED <<cli_stdout, cli_stderr, cli_events, cli_exit>>
    /\ UNCHANGED <<pipe_vars, split_vars, stretch_vars, asm_vars, rt_vars, cli_in>>

\* import torch, torchaudio, chatterbox
cli_import ==
    /\ fpc = "cli_import"
    /\ IF cli_in.imports = "missing"
       THEN CliReturn(2, "import_failed", {"error"})
       ELSE /\ fpc' = "cli_load"
            /\ UNCHANGED <<cli_stdout, cli_events, cli_exit>>
    /\ UNCHANGED <<pipe_vars, split_vars, stretch_vars, asm_vars, rt_vars, cli_in, cli_stderr>>

\* from_pretrained: a TypeError is retried without the extra kwargs, anything
\* else leaves main(); then the effective settings are printed on stderr
cli_load_model ==
    /\ fpc = "cli_load"
    /\ IF cli_in.from_pretrained = "raises"
       THEN /\ CliUncaught("exception")
            /\ UNCHANGED cli_stderr
       ELSE /\ cli_stderr' = Append(cli_stderr, "settings")
            /\ fpc' = "cli_speaker"
            /\ UNCHANGED <<cli_stdout, cli_events, cli_exit>>
    /\ UNCHANGED <<pipe_vars, split_vars, stretch_vars, asm_vars, rt_vars, cli_in>>

\* the same with the error written to stderr instead of stdout
cli_speaker_wav_to_stderr ==
    /\ fpc = "cli_speaker"
    /\ IF cli_in.speaker_wav = "missing"
       THEN /\ cli_stderr' = Append(cli_stderr, "error")
            /\ CliExit(3, "speaker_missing")
            /\ UNCHANGED cli_stdout
       ELSE /\ fpc' = "cli_generate"
            /\ UNCHANGED <<cli_stdout, cli_stderr, cli_events, cli_exit>>
    /\ UNCHANGED <<pipe_vars, split_vars, stretch_vars, asm_vars, rt_vars, cli_in>>

\* --speaker-wav: a path that does not exist ends the run with 3; a file
\* torchaudio cannot decode is passed on as it is
cli_speaker_wav ==
    /\ fpc = "cli_speaker"
    /\ IF cli_in.speaker_wav = "missing"
       THEN CliReturn(3, "speaker_missing", {"error"})
       ELSE /\ fpc' = "cli_generate"
            /\ UNCHANGED <<cli_stdout, cli_events, cli_exit>>
    /\ UNCHANGED <<pipe_vars, split_vars, stretch_vars, asm_vars, rt_vars, cli_in, cli_stderr>>

\* the generate() attempts: with the prompt as path, as tensor, then without
\* prompt; wav is still None when all raised or the last returned None
cli_generate ==
    /\ fpc = "cli_generate"
    /\ IF cli_in.generate \in {"raises", "none"}
       THEN CliReturn(4, "generate_failed", {"error", "tried", "accepted_params"})
       ELSE /\ fpc' = "cli_persist"
            /\ UNCHANGED <<cli_stdout, cli_events, cli_exit>>
    /\ UNCHANGED <<pipe_vars, split_vars, stretch_vars, asm_vars, rt_vars, cli_in, cli_stderr>>

\* the same with a failed save reported as status 4
cli_persist_as_generate ==
    /\ fpc = "cli_persist"
    /\ CASE cli_in.persist = "mkdir_fails" -> CliUncaught("mkdir_failed")
         [] cli_in.persist = "save_fails" -> CliReturn(4, "persist_failed", {"error"})
         [] OTHER -> CliReturn(0, "persisted", ResultKeys)
    /\ UNCHANGED <<pipe_vars, split_vars, stretch_vars, asm_vars, rt_vars, cli_in, cli_stderr>>

\* args.out.parent.mkdir outside the try, the save inside it, then the result
cli_persist ==
    /\ fpc = "cli_persist"
    /\ CASE cli_in.persist = "mkdir_fails" -> CliUncaught("mkdir_failed")
         [] cli_in.persist = "save_fails" -> CliReturn(5, "persist_failed", {"error"})
         [] OTHER -> CliReturn(0, "persisted", ResultKeys)
    /\ UNCHANGED <<pipe_vars, split_vars, stretch_vars, asm_vars, rt_vars, cli_in, cli_stderr>>

NextCli ==
    \/ cli_parse_args
    \/ cli_import
    \/ cli_load_model
    \/ cli_speaker_wav
    \/ cli_generate
    \/ cli_persist

SpecCli == InitCli /\ [][NextCli]_vars

CliDone == fpc = "cli_done"

\* C21 as stated: each of the statuses 0, 2, 3, 4, 5 is that of one outcome.
C21_Original ==
    CliDone =>
        /\ cli_exit = 0 <=> "persisted" \in cli_events
        /\ cli_exit = 2 <=> "import_failed" \in cli_events
        /\ cli_exit = 3 <=> "speaker_missing" \in cli_events
        /\ cli_exit = 4 <=> "generate_failed" \in cli_events
        /\ cli_exit = 5 <=> "persist_failed" \in cli_events

\* C21: the five outcomes named have five distinct statuses and a run has one
\* outcome; 3, 4 and 5 identify theirs; 0 is also the status of --help, 2 also
\* that of a command line argparse rejects, and every other exception, a
\* failed mkdir of the output directory included, ends with 1.
C21_ExitStatus ==
    CliDone =>
        /\ Cardinality(cli_events) = 1
        /\ cli_exit \in 0..5
        /\ cli_exit = 0 <=> cli_events \subseteq {"persisted", "help"}
        /\ cli_exit = 1 <=> cli_events \subseteq {"exception", "mkdir_failed"}
        /\ cli_exit = 2 <=> cli_events \subseteq {"import_failed", "usage_error"}
        /\ cli_exit = 3 <=> "speaker_missing" \in cli_events
        /\ cli_exit = 4 <=> "generate_failed" \in cli_events
        /\ cli_exit = 5 <=> "persist_failed" \in cli_events

C21_Witness ==
    /\ CliDone
    /\ cli_exit = 2
    /\ cli_events = {"usage_error"}
    /\ cli_in.imports = "ok"

\* what C22 asks of standard output
OneJsonLine ==
    /\ Len(cli_stdout) = 1
    /\ cli_stdout[1].kind = "json"
    /\ cli_exit = 0 => "out_path" \in cli_stdout[1].keys
    /\ cli_exit # 0 => "error" \in cli_stdout[1].keys

\* C22 as stated: every run ends with exactly one JSON object on stdout.
C22_Original == CliDone => OneJsonLine

\* C22: every run whose command line argparse accepts ends with exactly one
\* JSON object line on stdout, with out_path on status 0 and error on any
\* other status (1 included); the settings line goes to stderr. A rejected
\* command line leaves stdout empty, --help prints the help text there.
C22_OneJsonLine ==
    CliDone =>
        /\ (cli_in.argv = "ok" \/ cli_in.env = "junk") => OneJsonLine
        /\ \A i \in DOMAIN cli_stdout :
               cli_stdout[i].kind = "json" \/ "help" \in cli_events
        /\ "usage_error" \in cli_events => cli_stdout = <<>>
        /\ "persisted" \in cli_events => cli_stderr = <<"settings">>

C22_Witness ==
    /\ CliDone
    /\ cli_exit = 0
    /\ cli_stdout = <<JsonLine(ResultKeys)>>
    /\ cli_stderr = <<"settings">>

\* ------------------------------------------------ the working directory
\* the run got as far as creating the temporary directory
WorkdirCreated == pc \notin {"idle", "main"} /\ exc.at \notin {"input_video", "audio_prompt"}

C24_Preserved ==
    (pc = "done" /\ cfg.keep_workdir /\ WorkdirCreated) => preserved

\* ------------------------------- write_transcript, load_transcript_from_json
\* Times are ms, a text is a sequence of characters; the file holds, for
\* each segment, the two numbers as JSON writes them in seconds and the text
\* as a JSON string.

\* characters of a text: a letter, a blank, and the two JSON must escape
Chars == {"a", " ", "\"", "\\"}
RtTexts == SeqsUpTo(Chars, MaxChars)

\* start and end of a segment: empty window, negative start, end before start
RtTimes == {[start |-> 0, end |-> 0], [start |-> -500, end |-> 12040],
            [start |-> 2000, end |-> 1000]}

RtSegments == {[start |-> t.start, end |-> t.end, text |-> x] : t \in RtTimes, x \in RtTexts}
RtInputs == SeqsUpTo(RtSegments, MaxRt)

\* the digits after the point of f thousandths, as repr() of a float has them
FracDigits(f) ==
    IF f % 100 = 0 THEN <<f \div 100>>
    ELSE IF f % 10 = 0 THEN <<f \div 100, (f \div 10) % 10>>
    ELSE <<f \div 100, (f \div 10) % 10, f % 10>>

\* json.dumps of a float of seconds
FormatSeconds(ms) ==
    LET a == IF ms < 0 THEN -ms ELSE ms
    IN  [neg |-> ms < 0, whole |-> Digits(a \div 1000), frac |-> FracDigits(a % 1000)]

\* the natural number with these digits
RECURSIVE DigitsValue(_)
DigitsValue(d) ==
    IF d = <<>> THEN 0 ELSE 10 * DigitsValue(SubSeq(d, 1, Len(d) - 1)) + d[Len(d)]

\* variant: the digits after the point read as a whole number
FracValue_unpadded(d) == DigitsValue(d)

\* thousandths given by the digits after the point
FracValue(d) ==
    d[1] * 100 + (IF Len(d) >= 2 THEN d[2] * 10 ELSE 0) + (IF Len(d) >= 3 THEN d[3] ELSE 0)

\* float(json.loads(...)) of a number, in ms
ParseSeconds(tok) ==
    LET a == DigitsValue(tok.whole) * 1000 + FracValue(tok.frac)
    IN  IF tok.neg THEN -a ELSE a

\* json.dumps of a str: quote and backslash are escaped
RECURSIVE Escape(_)
Escape(text) ==
    IF text = <<>> THEN <<>>
    ELSE (IF Head(text) \in {"\"", "\\"} THEN <<"\\", Head(text)>> ELSE <<Head(text)>>)
         \o Escape(Tail(text))

\* json.loads of a JSON string
RECURSIVE Unescape(_)
Unescape(enc) ==
    IF enc = <<>> THEN <<>>
    ELSE IF Head(enc) = "\\" /\ Len(enc) >= 2
    THEN <<enc[2]>> \o Unescape(SubSeq(enc, 3, Len(enc)))
    ELSE <<Head(enc)>> \o Unescape(Tail(enc))

\* str.strip()
RECURSIVE StripLeft(_)
StripLeft(text) ==
    IF text # <<>> /\ Head(text) = " " THEN StripLeft(Tail(text)) ELSE text

RECURSIVE StripRight(_)
StripRight(text) ==
    IF text # <<>> /\ text[Len(text)] = " "
    THEN StripRight(SubSeq(text, 1, Len(text) - 1)) ELSE text

Strip(text) == StripRight(StripLeft(text))

InitRt ==
    /\ PipeIdle
    /\ SplitIdle
    /\ StretchIdle
    /\ AsmIdle
    /\ CliIdle
    /\ fpc = "rt"
    /\ rt_in \in RtInputs
    /\ rt_file = NoFile
    /\ rt_out = NoRtOut

\* write_transcript(segments, output_path)
write_transcript ==
    /\ fpc = "rt"
    /\ rt_file' = [exists |-> TRUE,
                   entries |-> [i \in DOMAIN rt_in |->
                                   [start |-> FormatSeconds(rt_in[i].start),
                                    end |-> FormatSeconds(rt_in[i].end),
                                    text |-> Escape(rt_in[i].text)]]]
    /\ fpc' = "rt_written"
    /\ UNCHANGED <<pipe_vars, split_vars, stretch_vars, asm_vars, cli_vars, rt_in, rt_out>>

\* one entry of the file as the loop of load_transcript_from_json reads it
LoadedEntry(item) ==
    [start |-> ParseSeconds(item.start), end |-> ParseSeconds(item.end),
     text |-> Strip(Unescape(item.text))]

\* load_transcript_from_json(path) on the file written: an entry with
\* end < start raises PipelineError, an entry whose stripped text is empty
\* is skipped
load_written_transcript ==
    /\ fpc = "rt_written"
    /\ LET read == [i \in DOMAIN rt_file.entries |-> LoadedEntry(rt_file.entries[i])]
           NonEmpty(e) == e.text # <<>>
       IN  IF \E i \in DOMAIN read : read[i].end < read[i].start
           THEN rt_out' = [segments |-> <<>>, exc |-> PipelineError("transcript_json")]
           ELSE rt_out' = [segments |-> SelectSeq(read, NonEmpty), exc |-> NoExc]
    /\ fpc' = "rt_done"
    /\ UNCHANGED <<pipe_vars, split_vars, stretch_vars, asm_vars, cli_vars, rt_in, rt_file>>

NextRt ==
    \/ write_transcript
    \/ load_written_transcript

SpecRt == InitRt /\ [][NextRt]_vars

\* every segment has end >= start and a text that is not empty and has no
\* blank at either end
RoundTripInput ==
    \A i \in DOMAIN rt_in :
        /\ rt_in[i].end >= rt_in[i].start
        /\ rt_in[i].text # <<>>
        /\ rt_in[i].text[1] # " "
        /\ rt_in[i].text[Len(rt_in[i].text)] # " "

\* C25: a list of segments with end >= start and stripped, non-empty text is
\* read back from the file write_transcript wrote as the same segments
\* (start, end, text) in the same order.
C25_RoundTrip ==
    (fpc = "rt_done" /\ RoundTripInput) => rt_out = [segments |-> rt_in, exc |-> NoExc]

C25_Witness ==
    /\ fpc = "rt_done"
    /\ Len(rt_in) = 2
    /\ rt_in[1] = [start |-> -500, end |-> 12040, text |-> <<"\"", "\\">>]
    /\ rt_in[2] = [start |-> 0, end |-> 0, text |-> <<"a">>]
    /\ rt_out.segments = rt_in

\* ------------------------------------------------- segments in the pipeline
\* C26: every transcript segment handed to synthesis, before and after
\* splitting, and every generated segment handed to assembly has
\* end >= start, whichever source produced it.
C26_EndNotBeforeStart ==
    /\ \A i \in DOMAIN segments : segments[i].end >= segments[i].start
    /\ \A i \in DOMAIN all_segments : all_segments[i].end >= all_segments[i].start

\* a transcription backend was called or one of its processes is alive
BackendInvoked ==
    \/ attempts # <<>>
    \/ pc \in {"tr_fw", "tr_cpp", "tr_cpp_wait1", "tr_cpp_retry", "tr_cpp_wait2", "tr_ow"}
    \/ procs \cap {"whisper_cpp_1", "whisper_cpp_2"} # {}

\* C27: with --transcript-json no transcription backend is invoked at any
\* point of the run, and the segments handed to generate_segments are the
\* entries of the file that have text, in file order.
C27_TranscriptJson ==
    cfg.mode = "json" =>
        /\ ~BackendInvoked
        /\ segments = SelectSeq(transcript_json, HasText)
        /\ (pc \in {"gen_loop", "tts_wait1", "tts_retry", "tts_wait2", "assemble"} =>
               all_segments = SplitAll(SelectSeq(transcript_json, HasText)))

C27_Witness ==
    /\ cfg.mode = "json"
    /\ transcript_json = <<SegBlank, SegWide>>
    /\ segments = <<SegWide>>
    /\ Len(generated) = 1
    /\ pc = "done"

\* C28: every sub-segment of a segment longer than 15 s covers a window of
\* positive length, start < end, so no text is put on an empty window.
C28_PositiveDuration ==
    SplitLong => \A i \in DOMAIN sub_segments : sub_segments[i].start < sub_segments[i].end

\* C29: the base track contains every clip entirely: the offset of each clip
\* overlaid plus its length does not exceed the length of the track, also
\* when the windows of the segments overlap.
C29_ClipsFit ==
    TrackBuilt =>
        \A i \in DOMAIN final_audio.overlays :
            final_audio.overlays[i].position + final_audio.overlays[i].len <= final_audio.len

\* C30: when generate_segments has returned, its result holds one
\* GeneratedSegment per segment after splitting, in the same order, each with
\* the aligned clip of its own index; the raw and aligned clip paths of the
\* segments are pairwise distinct.
C30_OneClipEach ==
    stage["generate"] = "ok" =>
        /\ Len(generated) = Len(all_segments)
        /\ \A i \in DOMAIN generated :
               /\ generated[i].transcript = all_segments[i]
               /\ generated[i].audio_path = ClipPath(i - 1, "aligned")
               /\ generated[i].audio_path.digits[Len(generated[i].audio_path.digits)] = i - 1
        /\ \A i, j \in DOMAIN all_segments :
               /\ ClipPath(i - 1, "raw") # ClipPath(j - 1, "aligned")
               /\ i # j => /\ ClipPath(i - 1, "raw") # ClipPath(j - 1, "raw")
                           /\ generated[i].audio_path # generated[j].audio_path

C30_Witness ==
    /\ stage["generate"] = "ok"
    /\ Len(segments) = 2
    /\ Len(generated) = 3
    /\ generated[3].audio_path = [dir |-> "workdir", digits |-> <<0, 0, 0, 2>>, kind |-> "aligned"]
    /\ pc = "assemble"

====
